---- MODULE Spec2Model ----
(***************************************************************************)
(* Model of etl.py: main() runs process_data over the song files with      *)
(* process_song_file and then over the log files with process_log_file.    *)
(* Every cur.execute / conn.commit is one step.  A file's contents are     *)
(* read when the file is processed (pd.read_json), so they are chosen      *)
(* there.  Timestamps are milliseconds since the epoch; TLC integers are   *)
(* 32 bits wide, so the events lie in January 1970 and the calendar        *)
(* helpers are written for that month.  None is modelled by NULL for a     *)
(* scalar and by the empty tuple for a row.                                *)
(***************************************************************************)
EXTENDS Integers, Sequences, FiniteSets, TLC

VARIABLES
    pc,        \* position of the program
    phase,     \* "song": process_data(.., process_song_file); "log": the second call
    numFiles,  \* len(all_files) of the running process_data
    i,         \* enumerate(all_files, 1) position
    raw,       \* the records pd.read_json returned for the current file
    df,        \* the dataframe being iterated (log file: filtered, ts converted)
    time_df,   \* rows of time_df
    user_df,   \* rows of user_df
    k,         \* position of the running iterrows() loop
    results,   \* cur.fetchone() of the last song_select
    error,     \* the exception that ended the program, or NULL
    songs,     \* rows loaded into the songs table
    artists,   \* rows loaded into the artists table
    executed,  \* the cur.execute calls made for the current file, in order
    trace      \* the run's database calls by kind and file, a run of executes as one

vars == <<pc, phase, numFiles, i, raw, df, time_df, user_df, k, results, error,
          songs, artists, executed, trace>>

NULL == "NULL"

\* ---------------------------------------------------------------- bounds
MaxSongFiles == 2
MaxLogFiles == 2
MaxRecs == 2
MaxEvents == 3

\* ------------------------------------------------------------ time units
MsPerSecond == 1000
DayMs == 24 * 60 * 60 * MsPerSecond
HourMs == 60 * 60 * MsPerSecond

\* ---------------------------------------------------------------- inputs
SongRec(sid, title, aid, name, dur, year) ==
    [song_id |-> sid, title |-> title, artist_id |-> aid, year |-> year,
     duration |-> dur, artist_name |-> name, artist_location |-> "",
     artist_latitude |-> 35, artist_longitude |-> 139]

\* two songs of the same title and duration by two artists of the same name
SongRecords ==
    { SongRec("S1", "T1", "AR1", "A1", 200, 2000),
      SongRec("S2", "T1", "AR2", "A1", 200, 0) }

Event(page, ts, uid, level, song, artist, length, session) ==
    [page |-> page, ts |-> ts, userId |-> uid, firstName |-> "F" \o uid,
     lastName |-> "L" \o uid, gender |-> "F", level |-> level, song |-> song,
     artist |-> artist, length |-> length, sessionId |-> session,
     location |-> "at" \o level, userAgent |-> "UA" \o uid]

\* a play on a whole second, a play half a second before midnight by the same
\* user on another level, and a page view that is no play
EventSet ==
    { Event("NextSong", DayMs + 2 * MsPerSecond, "u1", "free", "T1", "A1", 200, 7),
      Event("NextSong", DayMs - 500, "u1", "paid", "T2", "A2", 300, 8),
      Event("Home", DayMs - 500, "u2", "free", NULL, NULL, 0, 9) }

SeqsUpTo(S, n) == UNION { [1..m -> S] : m \in 0..n }

\* ------------------------------------------------------ process_song_file
\* variant: the last record of the file instead of the first
LastRecord(d) == d[Len(d)]

FirstRecord(d) == d[1]

SongData(r) == <<r.song_id, r.title, r.artist_id, r.year, r.duration>>

ArtistData(r) ==
    <<r.artist_id, r.artist_name, r.artist_location, r.artist_latitude,
      r.artist_longitude>>

\* ------------------------------------------------------- process_log_file
\* variant: no filter on the page column
FilterNothing(events) == [p \in 1..Len(events) |-> [index |-> p - 1, row |-> events[p]]]

\* df[df['page'] == 'NextSong']: the rows keep their index labels
FilterNextSong(events) ==
    SelectSeq([p \in 1..Len(events) |-> [index |-> p - 1, row |-> events[p]]],
              LAMBDA r : r.row.page = "NextSong")

\* variant: dt.floor(freq='s')
FloorSeconds(ts) == (ts \div MsPerSecond) * MsPerSecond

\* pd.to_datetime(ts, unit='ms').dt.ceil(freq='s')
CeilSeconds(ts) == ((ts + MsPerSecond - 1) \div MsPerSecond) * MsPerSecond

ConvertTs(d) ==
    [j \in 1..Len(d) |->
        [index |-> d[j].index,
         row |-> [d[j].row EXCEPT !.ts = [type |-> "Timestamp", ms |-> CeilSeconds(@)]]]]

\* calendar fields of an instant of January 1970 (1 January 1970 was a Thursday)
DayIndex(t) == t.ms \div DayMs
TimeOfDay(t) == [type |-> "time", ms |-> t.ms % DayMs]
Hour(t) == (t.ms % DayMs) \div HourMs
Day(t) == DayIndex(t) + 1
Week(t) == ((DayIndex(t) + 3) \div 7) + 1
Month(t) == 1
Year(t) == 1970
DayNames == <<"Monday", "Tuesday", "Wednesday", "Thursday", "Friday", "Saturday", "Sunday">>
DayName(t) == DayNames[((DayIndex(t) + 3) % 7) + 1]

TimeRow(t) == <<TimeOfDay(t), Hour(t), Day(t), Week(t), Month(t), Year(t), DayName(t)>>

\* variant: one time row per distinct timestamp
BuildTimeDfDistinct(d) ==
    LET Keep[j \in 0..Len(d)] ==
            IF j = 0 THEN <<>>
            ELSE IF \E m \in 1..(j - 1) : d[m].row.ts = d[j].row.ts
                 THEN Keep[j - 1]
                 ELSE Append(Keep[j - 1], TimeRow(d[j].row.ts))
    IN Keep[Len(d)]

\* time_df: one row per row of df, columns filled from series_list
BuildTimeDf(d) == [j \in 1..Len(d) |-> TimeRow(d[j].row.ts)]

UserProjection(row) == <<row.userId, row.firstName, row.lastName, row.gender, row.level>>

\* DataFrame.drop_duplicates(): keep the first of equal rows
DropDuplicates(rows) ==
    LET Keep[j \in 0..Len(rows)] ==
            IF j = 0 THEN <<>>
            ELSE IF \E m \in 1..(j - 1) : rows[m] = rows[j]
                 THEN Keep[j - 1]
                 ELSE Append(Keep[j - 1], rows[j])
    IN Keep[Len(rows)]

\* variant: drop_duplicates(subset=['userId'])
BuildUserDfByKey(d) ==
    LET rows == [j \in 1..Len(d) |-> UserProjection(d[j].row)]
        Keep[j \in 0..Len(rows)] ==
            IF j = 0 THEN <<>>
            ELSE IF \E m \in 1..(j - 1) : rows[m][1] = rows[j][1]
                 THEN Keep[j - 1]
                 ELSE Append(Keep[j - 1], rows[j])
    IN Keep[Len(rows)]

\* user_df = df[['userId', 'firstName', 'lastName', 'gender', 'level']].drop_duplicates()
BuildUserDf(d) == DropDuplicates([j \in 1..Len(d) |-> UserProjection(d[j].row)])

SelectArgs(row) == <<row.song, row.artist, row.length>>

\* song_select: the join of the loaded songs and artists on the exact triple;
\* songs and artists hold every row the two insert statements were given
Matches(sg, ar, args) ==
    { <<q[1][1], q[2][1]>> :
        q \in { p \in sg \X ar : /\ p[1][3] = p[2][1]
                                 /\ p[1][2] = args[1]
                                 /\ p[2][2] = args[2]
                                 /\ p[1][5] = args[3] } }

\* variant: the fetched row is never bound
ResolveNone(res) == <<NULL, NULL>>

\* if results: songid, artistid = results  else: None, None
Resolve(res) == IF res # <<>> THEN res ELSE <<NULL, NULL>>

\* variant: level and user_id in each other's column
SongplayDataSwapped(row, ids) ==
    <<row.ts, row.level, row.userId, ids[1], ids[2], row.sessionId, row.location,
      row.userAgent>>

SongplayData(row, ids) ==
    <<row.ts, row.userId, row.level, ids[1], ids[2], row.sessionId, row.location,
      row.userAgent>>

\* variant: the exception is caught and the event goes on as a no-match
LookupErrorSwallowed == "insert_songplay"

\* an exception of cur.execute(song_select, ..) is not caught anywhere
LookupErrorPc == "crashed"

\* ----------------------------------------------------------- bookkeeping
Call(stmt, args, fetched) == [stmt |-> stmt, args |-> args, fetched |-> fetched]

Entry(op) == [op |-> op, phase |-> phase, file |-> i]

Note(tr, e) == IF tr # <<>> /\ tr[Len(tr)] = e THEN tr ELSE Append(tr, e)

\* variant: no commit between files
CommitSkipped(tr, e) == tr

\* conn.commit() after func(cur, datafile)
CommitTrace(tr, e) == Append(tr, e)

\* ---------------------------------------------------------------- actions
Init ==
    /\ pc = "discover"
    /\ phase = "song"
    /\ numFiles = 0
    /\ i = 1
    /\ raw = <<>>
    /\ df = <<>>
    /\ time_df = <<>>
    /\ user_df = <<>>
    /\ k = 1
    /\ results = <<>>
    /\ error = NULL
    /\ songs = {}
    /\ artists = {}
    /\ executed = <<>>
    /\ trace = <<>>

\* os.walk / glob: the list of files of this process_data call
Discover ==
    /\ pc = "discover"
    /\ \E n \in 0..(IF phase = "song" THEN MaxSongFiles ELSE MaxLogFiles) :
          numFiles' = n
    /\ i' = 1
    /\ pc' = "loop"
    /\ UNCHANGED <<phase, raw, df, time_df, user_df, k, results, error, songs,
                   artists, executed, trace>>

\* for i, datafile in enumerate(all_files, 1): func(cur, datafile)
NextFile ==
    /\ pc = "loop"
    /\ i <= numFiles
    /\ pc' = "read"
    /\ UNCHANGED <<phase, numFiles, i, raw, df, time_df, user_df, k, results,
                   error, songs, artists, executed, trace>>

\* process_data returns; main starts the second call
SongsDone ==
    /\ pc = "loop"
    /\ i > numFiles
    /\ phase = "song"
    /\ phase' = "log"
    /\ pc' = "discover"
    /\ numFiles' = 0
    /\ i' = 1
    /\ UNCHANGED <<raw, df, time_df, user_df, k, results, error, songs, artists,
                   executed, trace>>

\* conn.close()
Close ==
    /\ pc = "loop"
    /\ i > numFiles
    /\ phase = "log"
    /\ pc' = "closed"
    /\ UNCHANGED <<phase, numFiles, i, raw, df, time_df, user_df, k, results,
                   error, songs, artists, executed, trace>>

\* a file without records has none of the columns: the selection raises
ReadSongFile ==
    /\ pc = "read"
    /\ phase = "song"
    /\ \E content \in SeqsUpTo(SongRecords, MaxRecs) :
          /\ raw' = content
          /\ df' = content
          /\ IF content = <<>>
             THEN pc' = "crashed" /\ error' = "KeyError"
             ELSE pc' = "insert_song" /\ error' = error
    /\ executed' = <<>>
    /\ time_df' = <<>>
    /\ user_df' = <<>>
    /\ results' = <<>>
    /\ k' = 1
    /\ UNCHANGED <<phase, numFiles, i, songs, artists, trace>>

InsertSong ==
    /\ pc = "insert_song"
    /\ LET song_data == SongData(FirstRecord(df))
       IN /\ executed' = Append(executed, Call("song_table_insert", song_data, <<>>))
          /\ songs' = songs \cup {song_data}
    /\ trace' = Note(trace, Entry("execute"))
    /\ pc' = "insert_artist"
    /\ UNCHANGED <<phase, numFiles, i, raw, df, time_df, user_df, k, results,
                   error, artists>>

InsertArtist ==
    /\ pc = "insert_artist"
    /\ LET artist_data == ArtistData(FirstRecord(df))
       IN /\ executed' = Append(executed, Call("artist_table_insert", artist_data, <<>>))
          /\ artists' = artists \cup {artist_data}
    /\ trace' = Note(trace, Entry("execute"))
    /\ pc' = "commit"
    /\ UNCHANGED <<phase, numFiles, i, raw, df, time_df, user_df, k, results,
                   error, songs>>

\* func has returned (its locals are gone); conn.commit()
Commit ==
    /\ pc = "commit"
    /\ trace' = CommitTrace(trace, Entry("commit"))
    /\ i' = i + 1
    /\ pc' = "loop"
    /\ raw' = <<>>
    /\ df' = <<>>
    /\ time_df' = <<>>
    /\ user_df' = <<>>
    /\ results' = <<>>
    /\ executed' = <<>>
    /\ k' = 1
    /\ UNCHANGED <<phase, numFiles, error, songs, artists>>

\* lines 50-74 up to the first insert; a file without records has no 'page'
\* column and df['page'] raises
ReadLogFile ==
    /\ pc = "read"
    /\ phase = "log"
    /\ \E content \in SeqsUpTo(EventSet, MaxEvents) :
          /\ raw' = content
          /\ IF content = <<>>
             THEN /\ pc' = "crashed"
                  /\ error' = "KeyError"
                  /\ df' = <<>>
                  /\ time_df' = <<>>
             ELSE /\ pc' = "time_loop"
                  /\ error' = error
                  /\ df' = ConvertTs(FilterNextSong(content))
                  /\ time_df' = BuildTimeDf(df')
    /\ executed' = <<>>
    /\ user_df' = <<>>
    /\ results' = <<>>
    /\ k' = 1
    /\ UNCHANGED <<phase, numFiles, i, songs, artists, trace>>

InsertTime ==
    /\ pc = "time_loop"
    /\ k <= Len(time_df)
    /\ executed' = Append(executed, Call("time_table_insert", time_df[k], <<>>))
    /\ trace' = Note(trace, Entry("execute"))
    /\ k' = k + 1
    /\ UNCHANGED <<pc, phase, numFiles, i, raw, df, time_df, user_df, results,
                   error, songs, artists>>

EndTimeLoop ==
    /\ pc = "time_loop"
    /\ k > Len(time_df)
    /\ user_df' = BuildUserDf(df)
    /\ k' = 1
    /\ pc' = "user_loop"
    /\ UNCHANGED <<phase, numFiles, i, raw, df, time_df, results, error, songs,
                   artists, executed, trace>>

InsertUser ==
    /\ pc = "user_loop"
    /\ k <= Len(user_df)
    /\ executed' = Append(executed, Call("user_table_insert", user_df[k], <<>>))
    /\ trace' = Note(trace, Entry("execute"))
    /\ k' = k + 1
    /\ UNCHANGED <<pc, phase, numFiles, i, raw, df, time_df, user_df, results,
                   error, songs, artists>>

EndUserLoop ==
    /\ pc = "user_loop"
    /\ k > Len(user_df)
    /\ k' = 1
    /\ pc' = "songplay_loop"
    /\ UNCHANGED <<phase, numFiles, i, raw, df, time_df, user_df, results, error,
                   songs, artists, executed, trace>>

\* cur.execute(song_select, ..); results = cur.fetchone()
Lookup ==
    /\ pc = "songplay_loop"
    /\ k <= Len(df)
    /\ LET args == SelectArgs(df[k].row)
           found == Matches(songs, artists, args)
       IN /\ \E r \in (IF found = {} THEN {<<>>} ELSE found) : results' = r
          /\ executed' = Append(executed, Call("song_select", args, results'))
    /\ trace' = Note(trace, Entry("execute"))
    /\ pc' = "insert_songplay"
    /\ UNCHANGED <<phase, numFiles, i, raw, df, time_df, user_df, k, error,
                   songs, artists>>

\* cur.execute(song_select, ..) raises
LookupRaises ==
    /\ pc = "songplay_loop"
    /\ k <= Len(df)
    /\ executed' = Append(executed, Call("song_select", SelectArgs(df[k].row), <<>>))
    /\ trace' = Note(trace, Entry("execute"))
    /\ error' = "LookupFailure"
    /\ results' = <<>>
    /\ pc' = LookupErrorPc
    /\ UNCHANGED <<phase, numFiles, i, raw, df, time_df, user_df, k, songs,
                   artists>>

InsertSongplay ==
    /\ pc = "insert_songplay"
    /\ executed' = Append(executed,
                      Call("songplay_table_insert",
                           SongplayData(df[k].row, Resolve(results)), <<>>))
    /\ trace' = Note(trace, Entry("execute"))
    /\ k' = k + 1
    /\ pc' = "songplay_loop"
    /\ UNCHANGED <<phase, numFiles, i, raw, df, time_df, user_df, results, error,
                   songs, artists>>

EndSongplayLoop ==
    /\ pc = "songplay_loop"
    /\ k > Len(df)
    /\ pc' = "commit"
    /\ UNCHANGED <<phase, numFiles, i, raw, df, time_df, user_df, k, results,
                   error, songs, artists, executed, trace>>

Next ==
    \/ Discover
    \/ NextFile
    \/ SongsDone
    \/ Close
    \/ ReadSongFile
    \/ InsertSong
    \/ InsertArtist
    \/ Commit
    \/ ReadLogFile
    \/ InsertTime
    \/ EndTimeLoop
    \/ InsertUser
    \/ EndUserLoop
    \/ Lookup
    \/ LookupRaises
    \/ InsertSongplay
    \/ EndSongplayLoop

Spec == Init /\ [][Next]_vars

\* ------------------------------------------------------------------ claims
\* positions of process_log_file after the read, or ended there by the lookup
InLogFile ==
    /\ phase = "log"
    /\ \/ pc \in {"time_loop", "user_loop", "songplay_loop", "insert_songplay", "commit"}
       \/ error = "LookupFailure"

\* positions (1-based) of the file's events whose page is 'NextSong'
NextSongAt == { p \in 1..Len(raw) : raw[p].page = "NextSong" }

NumNextSong == Cardinality(NextSongAt)

\* the j-th of them in file order
Nth(j) == CHOOSE p \in NextSongAt : Cardinality({ q \in NextSongAt : q <= p }) = j

Calls(stmt) == SelectSeq(executed, LAMBDA c : c.stmt = stmt)

TimeCalls == Calls("time_table_insert")
UserCalls == Calls("user_table_insert")
SelectCalls == Calls("song_select")
SongplayCalls == Calls("songplay_table_insert")

\* s is the smallest whole second that is not before ts
IsLeastSecond(s, ts) == s % MsPerSecond = 0 /\ s >= ts /\ s - ts < MsPerSecond

ProjectionOf(e) == <<e.userId, e.firstName, e.lastName, e.gender, e.level>>

\* the rows of the loaded songs and artists that match a lookup triple
MatchingPairs(args) ==
    { p \in songs \X artists : /\ p[1][3] = p[2][1]
                               /\ p[1][2] = args[1]
                               /\ p[2][2] = args[2]
                               /\ p[1][5] = args[3] }

\* C1: one songplay fact per 'NextSong' event, in file order, each after one
\* lookup on that event's (song, artist, length); the fact carries the fetched
\* (song_id, artist_id), or two nulls when nothing was fetched, and the other
\* six fields of that same event.
C1_SongplayFacts ==
    InLogFile =>
        /\ Len(SongplayCalls) <= NumNextSong
        /\ Len(SelectCalls) <= NumNextSong
        /\ pc = "commit" => Len(SongplayCalls) = NumNextSong
        /\ Len(SelectCalls) \in {Len(SongplayCalls), Len(SongplayCalls) + 1}
        /\ \A x \in 1..Len(executed) :
              executed[x].stmt = "songplay_table_insert" =>
                  x > 1 /\ executed[x - 1].stmt = "song_select"
        /\ \A j \in 1..Len(SongplayCalls) :
              LET e == raw[Nth(j)]
                  a == SongplayCalls[j].args
                  f == SelectCalls[j].fetched
              IN /\ SelectCalls[j].args = <<e.song, e.artist, e.length>>
                 /\ IF f # <<>>
                    THEN a[4] = f[1] /\ a[5] = f[2]
                    ELSE a[4] = NULL /\ a[5] = NULL
                 /\ a[1].type = "Timestamp"
                 /\ IsLeastSecond(a[1].ms, e.ts)
                 /\ a[2] = e.userId
                 /\ a[3] = e.level
                 /\ a[6] = e.sessionId
                 /\ a[7] = e.location
                 /\ a[8] = e.userAgent

\* a finished log file with a resolved fact and an unresolved one
C1_Witness ==
    /\ phase = "log"
    /\ pc = "commit"
    /\ \E a, b \in 1..Len(SongplayCalls) :
          /\ SongplayCalls[a].args[4] # NULL
          /\ SongplayCalls[b].args[4] = NULL
          /\ SongplayCalls[b].args[5] = NULL

\* C2: the filtered dataframe holds exactly the 'NextSong' events of the file,
\* in file order and otherwise unchanged, and every time row, user row, lookup
\* and songplay fact comes from one of them.
C2_Filter ==
    InLogFile =>
        /\ Len(df) = NumNextSong
        /\ \A j \in 1..Len(df) :
              /\ df[j].index + 1 = Nth(j)
              /\ [df[j].row EXCEPT !.ts = 0] = [raw[Nth(j)] EXCEPT !.ts = 0]
        /\ Len(TimeCalls) <= NumNextSong
        /\ Len(UserCalls) <= NumNextSong
        /\ Len(SelectCalls) <= NumNextSong
        /\ Len(SongplayCalls) <= NumNextSong
        /\ \A x \in 1..Len(executed) :
              LET c == executed[x]
              IN \E p \in NextSongAt :
                    CASE c.stmt = "time_table_insert" ->
                            IsLeastSecond((c.args[3] - 1) * DayMs + c.args[1].ms, raw[p].ts)
                      [] c.stmt = "user_table_insert" ->
                            c.args = ProjectionOf(raw[p])
                      [] c.stmt = "song_select" ->
                            c.args = <<raw[p].song, raw[p].artist, raw[p].length>>
                      [] c.stmt = "songplay_table_insert" ->
                            c.args[2] = raw[p].userId /\ c.args[6] = raw[p].sessionId

\* a finished log file with a page view between two plays
C2_Witness ==
    /\ phase = "log"
    /\ pc = "commit"
    /\ Len(raw) = 3
    /\ raw[1].page = "NextSong"
    /\ raw[2].page # "NextSong"
    /\ raw[3].page = "NextSong"
    /\ Len(SongplayCalls) = 2

\* C3: every songplay fact's start_time equals the start_time of a time row
\* inserted for the same file.
C3_StartTimeHasTimeRow ==
    InLogFile =>
        \A j \in 1..Len(SongplayCalls) :
            \E t \in 1..Len(TimeCalls) :
                TimeCalls[t].args[1] = SongplayCalls[j].args[1]

\* C4: the user rows are the five-field projections of the 'NextSong' events
\* without exact duplicates, each at the place of its first occurrence; rows
\* that differ in any field, such as the level, are all kept.
C4_UserRows ==
    (InLogFile /\ pc \notin {"time_loop", "user_loop"}) =>
        LET U == UserCalls
            P == [j \in 1..NumNextSong |-> ProjectionOf(raw[Nth(j)])]
            First(u) == CHOOSE j \in 1..Len(P) :
                            P[j] = u /\ \A m \in 1..(j - 1) : P[m] # u
        IN /\ \A a, b \in 1..Len(U) : a # b => U[a].args # U[b].args
           /\ { U[a].args : a \in 1..Len(U) } = { P[j] : j \in 1..Len(P) }
           /\ \A a, b \in 1..Len(U) : a < b => First(U[a].args) < First(U[b].args)

\* a finished file where a duplicate was dropped and one user keeps two levels
C4_Witness ==
    /\ phase = "log"
    /\ pc = "commit"
    /\ Len(UserCalls) < NumNextSong
    /\ \E a, b \in 1..Len(UserCalls) :
          /\ UserCalls[a].args[1] = UserCalls[b].args[1]
          /\ UserCalls[a].args[5] # UserCalls[b].args[5]

\* C5: as many time rows as 'NextSong' events, the j-th row built from the
\* j-th such event, equal timestamps included.
C5_TimeRows ==
    InLogFile =>
        /\ pc = "time_loop" => Len(TimeCalls) = k - 1
        /\ pc # "time_loop" => Len(TimeCalls) = NumNextSong
        /\ Len(df) = NumNextSong
        /\ \A j \in 1..Len(TimeCalls) :
              /\ df[j].index + 1 = Nth(j)
              /\ IsLeastSecond(df[j].row.ts.ms, raw[Nth(j)].ts)
              /\ TimeCalls[j].args = TimeRow(df[j].row.ts)

\* a finished file with two plays at the same timestamp and a time row for each
C5_Witness ==
    /\ phase = "log"
    /\ pc = "commit"
    /\ \E a, b \in 1..Len(TimeCalls) :
          /\ a < b
          /\ raw[Nth(a)].ts = raw[Nth(b)].ts
          /\ TimeCalls[a].args = TimeCalls[b].args

\* C6: start_time is the smallest whole second not before the event's
\* timestamp: the timestamp itself on a second boundary, the next whole second
\* otherwise; the songplay fact carries that instant and the time row is built
\* from it.
C6_Ceiling ==
    InLogFile =>
        /\ Len(df) = NumNextSong
        /\ \A j \in 1..Len(df) :
              LET ts == raw[Nth(j)].ts
                  s == df[j].row.ts.ms
              IN /\ IsLeastSecond(s, ts)
                 /\ ts % MsPerSecond = 0 => s = ts
                 /\ ts % MsPerSecond # 0 => s = (ts \div MsPerSecond + 1) * MsPerSecond
                 /\ j <= Len(SongplayCalls) =>
                       SongplayCalls[j].args[1] = [type |-> "Timestamp", ms |-> s]
                 /\ j <= Len(TimeCalls) =>
                       /\ TimeCalls[j].args[1] = [type |-> "time", ms |-> s % DayMs]
                       /\ (TimeCalls[j].args[3] - 1) * DayMs + TimeCalls[j].args[1].ms = s

\* a finished file with a play on a second boundary and a play off it
C6_Witness ==
    /\ phase = "log"
    /\ pc = "commit"
    /\ \E a, b \in 1..Len(SongplayCalls) :
          /\ raw[Nth(a)].ts % MsPerSecond = 0
          /\ SongplayCalls[a].args[1].ms = raw[Nth(a)].ts
          /\ raw[Nth(b)].ts % MsPerSecond # 0
          /\ SongplayCalls[b].args[1].ms > raw[Nth(b)].ts

\* C7: a song file with a record yields one song insert and then one artist
\* insert, both field for field from the first record, so the two rows carry
\* the same artist_id; only an empty file ends the song phase early.
C7_SongFile ==
    phase = "song" =>
        /\ pc = "crashed" => raw = <<>>
        /\ pc \in {"insert_song", "insert_artist", "commit"} => Len(raw) >= 1
        /\ pc = "insert_artist" => Len(executed) = 1
        /\ pc = "commit" =>
              LET r == raw[1]
              IN /\ Len(executed) = 2
                 /\ executed[1].stmt = "song_table_insert"
                 /\ executed[1].args =
                       <<r.song_id, r.title, r.artist_id, r.year, r.duration>>
                 /\ executed[2].stmt = "artist_table_insert"
                 /\ executed[2].args =
                       <<r.artist_id, r.artist_name, r.artist_location,
                         r.artist_latitude, r.artist_longitude>>
                 /\ executed[1].args[3] = executed[2].args[1]

\* a processed song file whose second record is another song
C7_Witness ==
    /\ phase = "song"
    /\ pc = "commit"
    /\ Len(raw) = 2
    /\ raw[2].song_id # raw[1].song_id
    /\ raw[2].artist_id # raw[1].artist_id
    /\ Len(executed) = 2

\* C8: the database calls of a file come as one block, closed by exactly one
\* commit, before any call of the next file; files follow in discovery order
\* and every file before the current one has been committed.
C8_Sequential ==
    /\ \A x \in 1..(Len(trace) - 1) :
          LET a == trace[x]
              b == trace[x + 1]
          IN /\ a.op = "execute" =>
                    b.op = "commit" /\ b.phase = a.phase /\ b.file = a.file
             /\ a.op = "commit" =>
                    \/ b.phase = a.phase /\ b.file = a.file + 1
                    \/ a.phase = "song" /\ b.phase = "log" /\ b.file = 1
    /\ \A x \in 1..Len(trace) :
          \/ trace[x].phase = phase /\ trace[x].file <= i
          \/ trace[x].phase = "song" /\ phase = "log"
    /\ \A f \in 1..(i - 1) :
          Cardinality({ x \in 1..Len(trace) :
                          trace[x] = [op |-> "commit", phase |-> phase, file |-> f] }) = 1
    /\ \A x \in 1..Len(trace) :
          (trace[x].phase = phase /\ trace[x].file = i) => trace[x].op = "execute"

\* the second log file has started its inserts after the first one's commit
C8_Witness ==
    \E x \in 1..(Len(trace) - 2) :
        /\ trace[x] = [op |-> "execute", phase |-> "log", file |-> 1]
        /\ trace[x + 1] = [op |-> "commit", phase |-> "log", file |-> 1]
        /\ trace[x + 2] = [op |-> "execute", phase |-> "log", file |-> 2]

\* C9: when the lookup raises, the program ends there: the failed lookup is the
\* file's last database call, the event gets no songplay fact, and the file is
\* not committed.
C9_LookupFailure ==
    error = "LookupFailure" =>
        /\ pc = "crashed"
        /\ phase = "log"
        /\ executed[Len(executed)].stmt = "song_select"
        /\ Len(SelectCalls) = k
        /\ Len(SongplayCalls) = k - 1
        /\ \A x \in 1..Len(trace) :
              trace[x] # [op |-> "commit", phase |-> "log", file |-> i]

\* the lookup of the second of three plays raised
C9_Witness ==
    /\ error = "LookupFailure"
    /\ pc = "crashed"
    /\ k = 2
    /\ Len(df) = 3
    /\ Len(SongplayCalls) = 1

\* C10 as stated: a lookup matching more than one loaded row gives a fact with
\* null song_id and null artist_id.
C10_AmbiguousIsNull ==
    InLogFile =>
        \A j \in 1..Len(SongplayCalls) :
            Cardinality(MatchingPairs(SelectCalls[j].args)) > 1 =>
                /\ SongplayCalls[j].args[4] = NULL
                /\ SongplayCalls[j].args[5] = NULL

\* C10 amended: a lookup matching more than one loaded row gives a fact with
\* the song_id and artist_id of one of the matching rows, the one fetchone
\* returned; the fact is inserted and no error is raised.
C10_AmbiguousTakesOne ==
    InLogFile =>
        \A j \in 1..Len(SelectCalls) :
            (/\ Cardinality(MatchingPairs(SelectCalls[j].args)) > 1
             /\ ~(j = Len(SelectCalls) /\ error = "LookupFailure")) =>
                /\ j <= Len(SongplayCalls) \/ (j = Len(SelectCalls) /\ pc = "insert_songplay")
                /\ j <= Len(SongplayCalls) =>
                      /\ SelectCalls[j].fetched # <<>>
                      /\ \E p \in MatchingPairs(SelectCalls[j].args) :
                            /\ SongplayCalls[j].args[4] = p[1][1]
                            /\ SongplayCalls[j].args[5] = p[2][1]
                            /\ SelectCalls[j].fetched = <<p[1][1], p[2][1]>>

\* a fact was inserted after a lookup that matched two loaded songs
C10_Witness ==
    /\ InLogFile
    /\ \E j \in 1..Len(SongplayCalls) :
          /\ Cardinality(MatchingPairs(SelectCalls[j].args)) = 2
          /\ SongplayCalls[j].args[4] # NULL


====
